---- MODULE Spec2Model ----
(***************************************************************************)
(* Model of the streaming XML parser, the path query engine, the content  *)
(* extraction and the recursive free of src/xml.c.                         *)
(*                                                                         *)
(* Bytes are one-character strings; the byte 0 is NUL.  A C string that   *)
(* is an input (a chunk, a path, a pattern) is the sequence of its bytes   *)
(* without the terminator; reading past its end yields NUL.  An owned      *)
(* buffer (key, value) is the sequence of its allocated bytes INCLUDING    *)
(* the terminator, so that in-place writes of terminators can be modelled; *)
(* the empty sequence is the NULL pointer.  Elements and attributes live   *)
(* in two arenas addressed by index, 0 being NULL.                         *)
(***************************************************************************)
EXTENDS Integers, Sequences, FiniteSets, TLC

NUL == "NUL"

WHITESPACE == {" ", "\t", "\r", "\n"}

TAG_ELEMENT_OPEN == 1
TAG_ELEMENT_CLOSE == 2
TAG_PI == 3
TAG_TYPE == 4
TAG_COMMENT == 5
TAG_CDATA == 6

\* The pattern table; the last entry is the {0, 0, 0, 0} sentinel.
xml_tag_patterns ==
  << [type |-> TAG_ELEMENT_OPEN,  open |-> <<"<">>,      open_len |-> 1, close |-> <<">">>],
     [type |-> TAG_ELEMENT_CLOSE, open |-> <<"<", "/">>, open_len |-> 2, close |-> <<">">>],
     [type |-> TAG_PI,            open |-> <<"<", "?">>, open_len |-> 2, close |-> <<"?", ">">>],
     [type |-> TAG_TYPE,          open |-> <<"<", "!">>, open_len |-> 2, close |-> <<">">>],
     [type |-> TAG_COMMENT,       open |-> <<"<", "!", "-", "-">>, open_len |-> 4,
                                  close |-> <<"-", "-", ">">>],
     [type |-> TAG_CDATA,         open |-> <<"<", "!", "[", "C", "D", "A", "T", "A", "[">>,
                                  open_len |-> 9, close |-> <<"]", "]", ">">>],
     [type |-> 0, open |-> <<>>, open_len |-> 0, close |-> <<>>] >>

(***************************************************************************)
(* Byte-span helpers (libc).                                               *)
(***************************************************************************)

\* s[i] of a C string / memory region; NUL at and beyond its end.
Rd(s, i) == IF i >= 1 /\ i <= Len(s) THEN s[i] ELSE NUL

RECURSIVE strspn(_, _, _)
strspn(s, i, accept) ==
  IF Rd(s, i) # NUL /\ Rd(s, i) \in accept THEN 1 + strspn(s, i + 1, accept) ELSE 0

RECURSIVE strcspn(_, _, _)
strcspn(s, i, reject) ==
  IF Rd(s, i) # NUL /\ Rd(s, i) \notin reject THEN 1 + strcspn(s, i + 1, reject) ELSE 0

strlen(s, i) == strcspn(s, i, {})

\* The C string starting at s[i].
CStr(s, i) == SubSeq(s, i, i + strlen(s, i) - 1)

\* tolower() on the letters the model feeds.
Lower(c) ==
  CASE c = "A" -> "a" [] c = "B" -> "b" [] c = "C" -> "c" [] c = "D" -> "d"
    [] c = "K" -> "k" [] c = "T" -> "t" [] c = "X" -> "x" [] OTHER -> c

LowerStr(s) == [i \in 1..Len(s) |-> Lower(s[i])]

\* xml_quotedspn's loop; s is the position *before* the next byte examined.
RECURSIVE quotedspn_loop(_, _, _, _)
quotedspn_loop(mem, first, s, q) ==
  LET s1 == s + 1 IN
  IF Rd(mem, s1) = NUL THEN 0
  ELSE IF Rd(mem, s1) = "\\" THEN quotedspn_loop(mem, first, s1 + 1, q)
  ELSE IF Rd(mem, s1) = q THEN s1 - first
  ELSE quotedspn_loop(mem, first, s1, q)

xml_quotedspn(mem, s, q) == quotedspn_loop(mem, s, s, q)

\* dest/dest_len after xml_string_append(&dest, &dest_len, src, Len(src));
\* the call returns NULL iff the resulting dest is <<>>.
xml_string_append(dest, dest_len, src) ==
  IF Len(src) < 1 THEN [dest |-> dest, len |-> dest_len]
  ELSE IF dest = <<>> THEN [dest |-> src \o <<NUL>>, len |-> dest_len + Len(src)]
  ELSE [dest |-> SubSeq(dest, 1, dest_len) \o src \o <<NUL>>, len |-> dest_len + Len(src)]

(***************************************************************************)
(* Elements and attributes.                                                *)
(***************************************************************************)

\* calloc(1, sizeof(struct xml_element)); `over` is the memory that lies
\* behind the key allocation, kept only where an attribute points into it.
NewElement ==
  [key |-> <<>>, value |-> <<>>, parent |-> 0, first_child |-> 0, last_child |-> 0,
   next |-> 0, first_attribute |-> 0, last_attribute |-> 0, over |-> <<>>]

\* A xml_element_add that appends without moving last_child.
xml_element_add_behind_first(heap, p, c) ==
  IF heap[p].first_child # 0
  THEN [heap EXCEPT ![c].parent = p, ![heap[p].last_child].next = c]
  ELSE [heap EXCEPT ![c].parent = p, ![p].first_child = c, ![p].last_child = c]

xml_element_add(heap, p, c) ==
  IF heap[p].first_child # 0
  THEN [heap EXCEPT ![c].parent = p, ![heap[p].last_child].next = c, ![p].last_child = c]
  ELSE [heap EXCEPT ![c].parent = p, ![p].first_child = c, ![p].last_child = c]

\* The heap after xml_element_create(parent); the new element is Len(heap)+1.
xml_element_create(heap, parent) ==
  IF parent # 0
  THEN xml_element_add(Append(heap, NewElement), parent, Len(heap) + 1)
  ELSE Append(heap, NewElement)

\* calloc(1, sizeof(struct xml_attribute)); key and value are offsets into
\* the memory of element e's key buffer (0 is NULL).
NewAttribute(e) == [e |-> e, key |-> 0, value |-> 0, next |-> 0]

xml_attribute_add(m, e, a) ==
  IF m.heap[e].first_attribute # 0
  THEN [m EXCEPT !.attrs[m.heap[e].last_attribute].next = a,
                 !.heap[e].last_attribute = a]
  ELSE [m EXCEPT !.heap[e].first_attribute = a, !.heap[e].last_attribute = a]

\* The state after xml_attribute_create(e); the new attribute is Len(attrs)+1.
xml_attribute_create(m, e) ==
  IF e # 0
  THEN xml_attribute_add([m EXCEPT !.attrs = Append(m.attrs, NewAttribute(e))],
                         e, Len(m.attrs) + 1)
  ELSE [m EXCEPT !.attrs = Append(m.attrs, NewAttribute(e))]

(***************************************************************************)
(* Parser state: struct xml_state plus the two arenas.                     *)
(***************************************************************************)

ZeroState ==
  [root |-> 0, current |-> 0, tag |-> 0, cursor |-> 0, length |-> 0, empty |-> 0,
   parser |-> "NULL", heap |-> <<>>, attrs |-> <<>>]

\* Result of a step that can fail: the state, the rest of the data, and
\* whether the C function returned its failure value.
Ok(m, d) == [m |-> m, d |-> d, fail |-> FALSE]
Fail(m, d) == [m |-> m, d |-> d, fail |-> TRUE]

\* st->current = xml_element_create(st->current)
create_current(m) ==
  [m EXCEPT !.heap = xml_element_create(m.heap, m.current), !.current = Len(m.heap) + 1]

\* The end of xml_value_append, r being what xml_string_append left.
store_value(m, r) ==
  IF r.dest = <<>> THEN Fail(m, <<>>)
  ELSE Ok([m EXCEPT !.heap[m.current].value = r.dest, !.length = r.len], <<>>)

value_append_current(m, data) ==
  store_value(m, xml_string_append(m.heap[m.current].value, m.length, data))

xml_value_append(m, data) ==
  value_append_current(IF m.length = 0 THEN create_current(m) ELSE m, data)

\* "append start of pattern for special tag types": key and length after it.
key_open_prefix(m) ==
  IF m.length = 0 /\ xml_tag_patterns[m.tag].open_len > 1
  THEN xml_string_append(m.heap[m.current].key, m.length, Tail(xml_tag_patterns[m.tag].open))
  ELSE [dest |-> m.heap[m.current].key, len |-> m.length]

\* The end of xml_key_append, r being what the last xml_string_append left.
store_key(m, r) ==
  IF r.dest = <<>> THEN Fail(m, <<>>)
  ELSE Ok([m EXCEPT !.heap[m.current].key = r.dest, !.length = r.len], <<>>)

key_append_data(m, a1, data) == store_key(m, xml_string_append(a1.dest, a1.len, data))

xml_key_append(m, data) ==
  IF m.current = 0 THEN Fail(m, <<>>)
  ELSE IF xml_tag_patterns[m.tag].type = TAG_ELEMENT_CLOSE THEN Ok(m, <<>>)
  ELSE key_append_data(m, key_open_prefix(m), data)

(***************************************************************************)
(* Attribute parsing.  It runs on the memory mem: the key buffer followed  *)
(* by the bytes that happen to lie behind the allocation.  Each operator   *)
(* is one stretch of the body of xml_parse_attributes' while loop and      *)
(* yields [m, mem] as the loop leaves them.                                *)
(***************************************************************************)

RECURSIVE xml_parse_attributes(_, _, _, _)

\* *p = 0 where p lies in the modelled memory.
WriteNul(mem, p) == IF p <= Len(mem) THEN [mem EXCEPT ![p] = NUL] ELSE mem

\* xml_attribute_create, then the two in-place terminators and the links;
\* value = 0 stands for `no value` (a bare name).
attrs_emit(m, e, mem, key, key_len, value, value_len, from) ==
  xml_parse_attributes(
    [xml_attribute_create(m, e) EXCEPT !.attrs[Len(m.attrs) + 1].key = key,
                                       !.attrs[Len(m.attrs) + 1].value = value],
    e,
    IF value # 0 THEN WriteNul(WriteNul(mem, key + key_len), value + value_len)
    ELSE WriteNul(mem, key + key_len),
    from)

\* from += p; if (*from == q) ++from;
attrs_span(m, e, mem, key, key_len, value, value_len, q) ==
  attrs_emit(m, e, mem, key, key_len, value, value_len,
             IF Rd(mem, value + value_len) = q THEN value + value_len + 1
             ELSE value + value_len)

\* The byte after `=` and white space is at f4.
attrs_value(m, e, mem, key, key_len, f4) ==
  IF Rd(mem, f4) = NUL THEN [m |-> m, mem |-> mem]
  ELSE IF Rd(mem, f4) = "'"
  THEN attrs_span(m, e, mem, key, key_len, f4 + 1, xml_quotedspn(mem, f4 + 1, "'"), "'")
  ELSE IF Rd(mem, f4) = "\""
  THEN attrs_span(m, e, mem, key, key_len, f4 + 1, xml_quotedspn(mem, f4 + 1, "\""), "\"")
  ELSE attrs_span(m, e, mem, key, key_len, f4, strcspn(mem, f4, WHITESPACE), NUL)

\* The name is mem[key .. key+key_len-1]; f3 is behind the white space after it.
attrs_after_key(m, e, mem, key, key_len, f3) ==
  IF Rd(mem, f3) = "="
  THEN attrs_value(m, e, mem, key, key_len, (f3 + 1) + strspn(mem, f3 + 1, WHITESPACE))
  ELSE attrs_emit(m, e, mem, key, key_len, 0, 0, f3)

attrs_key_len(m, e, mem, key, key_len) ==
  IF key_len < 1 THEN [m |-> m, mem |-> mem]
  ELSE attrs_after_key(m, e, mem, key, key_len,
                       (key + key_len) + strspn(mem, key + key_len, WHITESPACE))

attrs_key(m, e, mem, key) ==
  attrs_key_len(m, e, mem, key, strcspn(mem, key, {"="} \cup WHITESPACE))

xml_parse_attributes(m, e, mem, from) ==
  IF Rd(mem, from) = NUL THEN [m |-> m, mem |-> mem]
  ELSE attrs_key(m, e, mem, from + strspn(mem, from, WHITESPACE))

(***************************************************************************)
(* Parsing elements.                                                       *)
(***************************************************************************)

xml_close_element(m) == [m EXCEPT !.current = m.heap[m.current].parent]

\* A xml_close_tag that leaves the closer's cursor to content mode.
xml_close_tag_stale(m) ==
  [m EXCEPT !.tag = 0, !.length = 0, !.empty = 0, !.parser = "xml_parse_content"]

xml_close_tag(m) ==
  [m EXCEPT !.tag = 0, !.length = 0, !.cursor = 0, !.empty = 0,
            !.parser = "xml_parse_content"]

RECURSIVE check_empty_loop(_, _)
\* [key, empty] for the loop of xml_check_empty standing at key[p].
check_empty_loop(key, p) ==
  IF p < 1 THEN [key |-> key, empty |-> 0]
  ELSE IF key[p] \in WHITESPACE THEN check_empty_loop(key, p - 1)
  ELSE IF key[p] = "/" THEN [key |-> [key EXCEPT ![p] = NUL], empty |-> 1]
  ELSE [key |-> key, empty |-> 0]

check_empty_store(m, r) ==
  [m EXCEPT !.heap[m.current].key = r.key,
            !.empty = IF r.empty = 1 THEN 1 ELSE m.empty]

\* A xml_check_empty that strips the `/` and forgets to record it.
xml_check_empty_unrecorded(m) ==
  [m EXCEPT !.heap[m.current].key =
              check_empty_loop(m.heap[m.current].key,
                               strlen(m.heap[m.current].key, 1)).key]

xml_check_empty(m) ==
  check_empty_store(m, check_empty_loop(m.heap[m.current].key,
                                        strlen(m.heap[m.current].key, 1)))

\* Some attribute of e points behind the n allocated bytes of its key.
PointsBehind(m, e, n) ==
  \E a \in 1..Len(m.attrs) :
    m.attrs[a].e = e /\ (m.attrs[a].key > n \/ m.attrs[a].value > n)

\* The memory after xml_parse_attributes, split back into the key buffer
\* (its n allocated bytes) and what lies behind it.
tag_name_store(e, n, r) ==
  [r.m EXCEPT !.heap[e].key = SubSeq(r.mem, 1, n),
              !.heap[e].over = IF PointsBehind(r.m, e, n)
                               THEN SubSeq(r.mem, n + 1, Len(r.mem)) ELSE <<>>]

\* if (*p && xml_parse_attributes(st->current, p))
tag_name_attrs(m, p, junk) ==
  IF Rd(m.heap[m.current].key, p) = NUL THEN m
  ELSE tag_name_store(m.current, Len(m.heap[m.current].key),
                      xml_parse_attributes(m, m.current,
                                           m.heap[m.current].key \o junk, p))

\* p stands at the end of the name.
tag_name_end(m, p, junk) ==
  IF Rd(m.heap[m.current].key, p) = NUL THEN m
  ELSE tag_name_attrs([m EXCEPT !.heap[m.current].key[p] = NUL],
                      (p + 1) + strspn(m.heap[m.current].key, p + 1, WHITESPACE),
                      junk)

tag_name_checked(m, junk) ==
  tag_name_end(m, 1 + strcspn(m.heap[m.current].key, 1, WHITESPACE), junk)

\* junk: the bytes behind the key allocation at the time of the call.
xml_parse_tag_name(m, junk) == tag_name_checked(xml_check_empty(m), junk)

\* Index of the first c in d from d[i] on, 0 if there is none (strchr).
RECURSIVE strchr(_, _, _)
strchr(d, i, c) ==
  IF Rd(d, i) = NUL THEN 0 ELSE IF d[i] = c THEN i ELSE strchr(d, i + 1, c)

\* The `if (m)` branch of xml_parse_tag_body yields [r, done]: the result r
\* ends the call (done) or the while loop goes on with r.

\* A finalization that leaves the insertion point where a close tag found it.
finalize_close_kept(m, rest) ==
  [r |-> Ok(xml_close_tag(IF xml_tag_patterns[m.tag].type
                                \notin {TAG_ELEMENT_OPEN, TAG_ELEMENT_CLOSE}
                             \/ m.empty # 0
                          THEN xml_close_element(m) ELSE m), rest),
   done |-> TRUE]

\* xml_close_element for all but a non-empty element-open tag, xml_close_tag.
finalize_close(m, rest) ==
  [r |-> Ok(xml_close_tag(IF xml_tag_patterns[m.tag].type # TAG_ELEMENT_OPEN
                             \/ m.empty # 0
                          THEN xml_close_element(m) ELSE m), rest),
   done |-> TRUE]

finalize_tag(m, rest, junk) ==
  IF xml_tag_patterns[m.tag].type = TAG_ELEMENT_OPEN
  THEN finalize_close(xml_parse_tag_name(m, junk), rest)
  ELSE finalize_close(m, rest)

\* "append termination pattern for special tag types", ap being what
\* xml_string_append left.
finalize_special(m, ap, rest, junk) ==
  IF ap.dest = <<>> THEN [r |-> Fail(m, rest), done |-> TRUE]
  ELSE finalize_tag([m EXCEPT !.heap[m.current].key = ap.dest, !.length = ap.len],
                    rest, junk)

\* After ++st->cursor.
match_cursor(m, rest, junk) ==
  IF Rd(xml_tag_patterns[m.tag].close, m.cursor + 1) # NUL
  THEN [r |-> Ok(m, rest), done |-> FALSE]
  ELSE IF m.cursor > 1
  THEN finalize_special(m,
                        xml_string_append(m.heap[m.current].key, m.length,
                                          SubSeq(xml_tag_patterns[m.tag].close, 1,
                                                 m.cursor - 1)),
                        rest, junk)
  ELSE finalize_tag(m, rest, junk)

\* d = ++m; ++st->cursor;
match_advance(m, rest, junk) ==
  match_cursor([m EXCEPT !.cursor = m.cursor + 1], rest, junk)

match_appended(k, d, i, junk) ==
  IF k.fail THEN [r |-> Fail(k.m, d), done |-> TRUE]
  ELSE match_advance(k.m, SubSeq(d, i + 1, Len(d)), junk)

\* The match is at d[i].
tag_body_match(m, d, i, junk) ==
  IF m.cursor = 0
  THEN match_appended(xml_key_append(m, SubSeq(d, 1, i - 1)), d, i, junk)
  ELSE match_advance(m, SubSeq(d, i + 1, Len(d)), junk)

RECURSIVE xml_parse_tag_body(_, _, _)

tag_body_continue(t, junk) ==
  IF t.done THEN t.r ELSE xml_parse_tag_body(t.r.m, t.r.d, junk)

\* "append all the rest"
tag_body_rest(k, d) == IF k.fail THEN Fail(k.m, d) ELSE Ok(k.m, <<>>)

\* cursor = 0 and strchr gave i.
tag_body_first(m, d, i, junk) ==
  IF i # 0 THEN tag_body_continue(tag_body_match(m, d, i, junk), junk)
  ELSE tag_body_rest(xml_key_append(m, d), d)

\* The partial closer was data and is flushed (k); the cursor is reset and
\* d[1] is looked at again.
tag_body_flushed(k, d, junk) ==
  IF k.fail THEN Fail(k.m, d)
  ELSE IF xml_tag_patterns[k.m.tag].close[1] = d[1]
  THEN tag_body_continue(tag_body_match([k.m EXCEPT !.cursor = 0], d, 1, junk), junk)
  ELSE xml_parse_tag_body([k.m EXCEPT !.cursor = 0], d, junk)

xml_parse_tag_body(m, d, junk) ==
  IF d = <<>> THEN Ok(m, d)
  ELSE IF m.cursor = 0
  THEN tag_body_first(m, d, strchr(d, 1, xml_tag_patterns[m.tag].close[1]), junk)
  ELSE IF Rd(xml_tag_patterns[m.tag].close, m.cursor + 1) = d[1]
  THEN tag_body_continue(tag_body_match(m, d, 1, junk), junk)
  ELSE tag_body_flushed(xml_key_append(m, SubSeq(xml_tag_patterns[m.tag].close, 1,
                                                 m.cursor)),
                        d, junk)

\* The inner `for (; p->type; ++p)` started at table index p: the index of
\* the first pattern from p on whose opener has byte c at `cursor`, or the
\* sentinel's index.
RECURSIVE scan_patterns(_, _, _)
scan_patterns(p, cursor, c) ==
  IF xml_tag_patterns[p].type = 0 THEN p
  ELSE IF xml_tag_patterns[p].open_len > cursor /\ xml_tag_patterns[p].open[cursor + 1] = c
  THEN p
  ELSE scan_patterns(p + 1, cursor, c)

\* The second round of the `for (;;)`: p is not reset.
match_retry(p1, cursor, c) ==
  IF xml_tag_patterns[p1].type # 0 \/ cursor = 0 THEN [p |-> p1, cursor |-> cursor]
  ELSE [p |-> scan_patterns(p1, 0, c), cursor |-> 0]

\* The `for (;;)` of xml_parse_tag_opening for byte c: [p, cursor].
match_opening(cursor, c) == match_retry(scan_patterns(1, cursor, c), cursor, c)

adopt_create(m) ==
  IF xml_tag_patterns[m.tag].type # TAG_ELEMENT_CLOSE THEN create_current(m) ELSE m

adopt_reset(m) ==
  adopt_create([m EXCEPT !.length = 0, !.cursor = 0, !.parser = "xml_parse_tag_body"])

\* An adoption that does not close the content run in front of the tag.
adopt_tag_unclosed(m) == adopt_reset(m)

\* `if (!p->type) { ... }` with a tag already matched: adopt it.
adopt_tag(m) == adopt_reset(IF m.length > 0 THEN xml_close_element(m) ELSE m)

RECURSIVE xml_parse_tag_opening(_, _)

\* One round of the outer for loop, r being what the `for (;;)` left.
opening_byte(m, d, r) ==
  IF xml_tag_patterns[r.p].type = 0
  THEN IF m.tag = 0 THEN Fail([m EXCEPT !.cursor = r.cursor], d)
       ELSE Ok(adopt_tag([m EXCEPT !.cursor = r.cursor]), d)
  ELSE xml_parse_tag_opening([m EXCEPT !.cursor = r.cursor + 1, !.tag = r.p], Tail(d))

xml_parse_tag_opening(m, d) ==
  IF d = <<>> THEN Ok(m, d) ELSE opening_byte(m, d, match_opening(m.cursor, d[1]))

\* A xml_parse_content that hands over behind the `<` instead of at it.
content_switch_past(v, d, n) ==
  IF v.fail THEN Fail(v.m, d)
  ELSE IF Rd(d, n + 1) = "<"
  THEN Ok([v.m EXCEPT !.parser = "xml_parse_tag_opening"], SubSeq(d, n + 2, Len(d)))
  ELSE Ok(v.m, SubSeq(d, n + 1, Len(d)))

content_switch(v, d, n) ==
  IF v.fail THEN Fail(v.m, d)
  ELSE IF Rd(d, n + 1) = "<"
  THEN Ok([v.m EXCEPT !.parser = "xml_parse_tag_opening"], SubSeq(d, n + 1, Len(d)))
  ELSE Ok(v.m, SubSeq(d, n + 1, Len(d)))

\* end = d + n
content_end(m, d, n) ==
  content_switch(IF n > 0 THEN xml_value_append(m, SubSeq(d, 1, n)) ELSE Ok(m, <<>>), d, n)

xml_parse_content(m, d) == content_end(m, d, strcspn(d, 1, {"<"}))

\* st->parser(st, d)
call_parser(m, d, junk) ==
  CASE m.parser = "xml_parse_content" -> xml_parse_content(m, d)
    [] m.parser = "xml_parse_tag_opening" -> xml_parse_tag_opening(m, d)
    [] m.parser = "xml_parse_tag_body" -> xml_parse_tag_body(m, d, junk)

\* A xml_parse_chunk that resets the mode on every call.
enter_parser_reset(m) == xml_close_tag(m)

enter_parser(m) == IF m.parser = "NULL" THEN xml_close_tag(m) ELSE m

\* xml_parse_chunk up to its while loop, for a non-null chunk.
parse_chunk_enter(m) ==
  enter_parser(IF m.root = 0
               THEN [m EXCEPT !.heap = xml_element_create(m.heap, 0),
                              !.root = Len(m.heap) + 1, !.current = Len(m.heap) + 1]
               ELSE m)

RECURSIVE parse_chunk_loop(_, _, _)

loop_next(r, junk) ==
  IF r.fail THEN [m |-> r.m, ret |-> -1] ELSE parse_chunk_loop(r.m, r.d, junk)

\* The while loop of xml_parse_chunk: [m, ret].
parse_chunk_loop(m, d, junk) ==
  IF d = <<>> THEN [m |-> m, ret |-> 0] ELSE loop_next(call_parser(m, d, junk), junk)

\* xml_parse_chunk(st, d) for a non-null d, as one call.
xml_parse_chunk(m, d, junk) == parse_chunk_loop(parse_chunk_enter(m), d, junk)

(***************************************************************************)
(* Element location.  A path lives in a memory pm and is addressed by an   *)
(* index into it, 0 being NULL; a segment is [tag_len, query, next], query *)
(* being the list of struct xml_query_string from seg->query on.           *)
(***************************************************************************)

\* A function that dereferenced a null pointer and trapped.
SIGSEGV == -1

\* What the read of a null a->value can do: trap, or read whatever is
\* mapped at address 0, which compares equal or not.
NullRead == {"crash", "match", "nomatch"}

\* The key buffer of e with the memory behind it.
Mem(m, e) == m.heap[e].key \o m.heap[e].over

RECURSIVE query_loop(_, _, _, _)

\* } while (*sep && sep < stop);
query_while(pm, sep, stop, query) ==
  IF Rd(pm, sep) # NUL /\ sep < stop THEN query_loop(pm, sep, stop, query) ELSE query

\* xml_add_query_string puts q in front of the list.
query_add(pm, q, stop, query) ==
  query_while(pm, IF q.value # 0 THEN q.value + q.value_len ELSE q.key + q.key_len,
              stop, <<q>> \o query)

query_key(pm, key, key_len, stop, query) ==
  IF Rd(pm, key + key_len) = "="
  THEN query_add(pm, [key |-> key, key_len |-> key_len, value |-> key + key_len + 1,
                      value_len |-> strcspn(pm, key + key_len + 1, {"&", "/"})],
                 stop, query)
  ELSE query_add(pm, [key |-> key, key_len |-> key_len, value |-> 0, value_len |-> 0],
                 stop, query)

\* One round of the do loop of xml_first_path_segment, sep at `?` or `&`.
query_loop(pm, sep, stop, query) ==
  query_key(pm, sep + 1, strcspn(pm, sep + 1, {"=", "&", "/"}), stop, query)

\* tag_len and next are set; sep = strchr(path, '?').
segment_query(pm, path, tag_len, next, sep) ==
  IF sep # 0 /\ sep - path < tag_len
  THEN [tag_len |-> sep - path, query |-> query_loop(pm, sep, path + tag_len, <<>>),
        next |-> next]
  ELSE [tag_len |-> tag_len, query |-> <<>>, next |-> next]

\* next = strchr(path, '/')
segment_tag(pm, path, next) ==
  IF next = 0
  THEN segment_query(pm, path, strlen(pm, path), 0, strchr(pm, path, "?"))
  ELSE segment_query(pm, path, next - path, next + 1, strchr(pm, path, "?"))

xml_first_path_segment(pm, path) == segment_tag(pm, path, strchr(pm, path, "/"))

\* The inner for loop of xml_attribute_match from attribute a on, for the
\* constraint q: the attribute it breaks at, 0 if it runs out.
RECURSIVE attribute_scan(_, _, _, _, _, _)
attribute_scan(m, mem, a, pm, q, ub) ==
  IF a = 0 THEN 0
  ELSE IF /\ strlen(mem, m.attrs[a].key) = q.key_len
          /\ SubSeq(mem, m.attrs[a].key, m.attrs[a].key + q.key_len - 1)
               = SubSeq(pm, q.key, q.key + q.key_len - 1)
  THEN IF q.value = 0 THEN a
       ELSE IF m.attrs[a].value = 0
       THEN CASE ub = "crash" -> SIGSEGV
              [] ub = "match" -> a
              [] OTHER -> attribute_scan(m, mem, m.attrs[a].next, pm, q, ub)
       ELSE IF /\ strlen(mem, m.attrs[a].value) = q.value_len
               /\ SubSeq(mem, m.attrs[a].value, m.attrs[a].value + q.value_len - 1)
                    = SubSeq(pm, q.value, q.value + q.value_len - 1)
       THEN a
       ELSE attribute_scan(m, mem, m.attrs[a].next, pm, q, ub)
  ELSE attribute_scan(m, mem, m.attrs[a].next, pm, q, ub)

RECURSIVE query_match(_, _, _, _, _, _)

\* if (!a) return 0;
query_hit(m, e, pm, query, i, ub, a) ==
  IF a = SIGSEGV THEN SIGSEGV
  ELSE IF a = 0 THEN 0
  ELSE query_match(m, e, pm, query, i + 1, ub)

\* The outer for loop of xml_attribute_match from the i-th constraint on.
query_match(m, e, pm, query, i, ub) ==
  IF i > Len(query) THEN 1
  ELSE query_hit(m, e, pm, query, i, ub,
                 attribute_scan(m, Mem(m, e), m.heap[e].first_attribute, pm, query[i], ub))

\* 1, 0 or SIGSEGV.
xml_attribute_match(m, e, pm, seg, ub) ==
  IF e = 0 THEN 0
  ELSE IF seg.query = <<>> THEN 1
  ELSE query_match(m, e, pm, seg.query, 1, ub)

RECURSIVE xml_find(_, _, _, _, _)
RECURSIVE find_scan(_, _, _, _, _, _)

\* c = xml_find(e, next)
find_below(m, e, pm, path, seg, ub, c) ==
  IF c # 0 THEN c ELSE find_scan(m, m.heap[e].next, pm, path, seg, ub)

\* The name of e matched and xml_attribute_match gave am.
find_candidate(m, e, pm, path, seg, ub, am) ==
  IF am = SIGSEGV THEN SIGSEGV
  ELSE IF am = 0 THEN find_scan(m, m.heap[e].next, pm, path, seg, ub)
  ELSE IF seg.next = 0 THEN e
  ELSE find_below(m, e, pm, path, seg, ub, xml_find(m, e, pm, seg.next, ub))

\* The for loop of xml_find from child e on.
find_scan(m, e, pm, path, seg, ub) ==
  IF e = 0 THEN 0
  ELSE IF /\ m.heap[e].key # <<>>
          /\ strlen(m.heap[e].key, 1) = seg.tag_len
          /\ LowerStr(SubSeq(m.heap[e].key, 1, seg.tag_len))
               = LowerStr(SubSeq(pm, path, path + seg.tag_len - 1))
  THEN find_candidate(m, e, pm, path, seg, ub, xml_attribute_match(m, e, pm, seg, ub))
  ELSE find_scan(m, m.heap[e].next, pm, path, seg, ub)

\* xml_find(e, path) for a non-null e: the element found, 0 or SIGSEGV.
xml_find(m, e, pm, path, ub) ==
  IF path = 0 \/ Rd(pm, path) = NUL THEN 0
  ELSE find_scan(m, m.heap[e].first_child, pm, path, xml_first_path_segment(pm, path), ub)

\* while (--prev > path && *prev != '/');
RECURSIVE back_to_slash(_, _, _)
back_to_slash(pm, path, prev) ==
  IF prev - 1 > path /\ Rd(pm, prev - 1) # "/" THEN back_to_slash(pm, path, prev - 1)
  ELSE prev - 1

\* prev is where the while loop stopped.
last_segment_at(pm, prev) ==
  [seg |-> xml_first_path_segment(pm, IF Rd(pm, prev) = "/" THEN prev + 1 ELSE prev),
   prev |-> prev]

\* [seg, prev]: the segment parsed and the value returned, for a non-null path.
xml_last_path_segment(pm, path, prev) ==
  last_segment_at(pm, back_to_slash(pm, path,
                                    IF prev = 0 THEN path + strlen(pm, path) ELSE prev))

RECURSIVE FIND(_, _, _, _, _, _)

FIND_match(m, e, last, pm, seg, ub, am) ==
  IF am = SIGSEGV THEN SIGSEGV
  ELSE IF am # 0 THEN e
  ELSE FIND(m, m.heap[e].next, last, pm, seg, ub)

\* The macro FIND(from) of xml_find_next_from: the element it returns, 0 if
\* the loop runs out, or SIGSEGV.
FIND(m, from, last, pm, seg, ub) ==
  IF from = 0 THEN 0
  ELSE IF /\ m.heap[from].key # <<>>
          /\ LowerStr(CStr(m.heap[from].key, 1)) = LowerStr(CStr(m.heap[last].key, 1))
  THEN FIND_match(m, from, last, pm, seg, ub, xml_attribute_match(m, from, pm, seg, ub))
  ELSE FIND(m, m.heap[from].next, last, pm, seg, ub)

RECURSIVE xml_find_next_from(_, _, _, _, _, _)
RECURSIVE other_branches(_, _, _, _, _, _, _)

\* FIND(p->first_child) gave r.
branch_children(m, last, p, pm, path, ls, ub, r) ==
  IF r # 0 THEN r ELSE other_branches(m, last, p, pm, path, ls, ub)

\* p = xml_find_next_from(p, path, prev)
branch_next(m, last, p, pm, path, ls, ub) ==
  IF p = SIGSEGV THEN SIGSEGV
  ELSE IF p = 0 THEN 0
  ELSE branch_children(m, last, p, pm, path, ls, ub,
                       FIND(m, m.heap[p].first_child, last, pm, ls.seg, ub))

\* "try other branches": the for loop standing at p.
other_branches(m, last, p, pm, path, ls, ub) ==
  IF p = 0 \/ m.heap[p].key = <<>> THEN 0
  ELSE branch_next(m, last, xml_find_next_from(m, p, pm, path, ls.prev, ub),
                   pm, path, ls, ub)

\* FIND(last->next) gave r.
next_sibling(m, last, pm, path, ls, ub, r) ==
  IF r # 0 THEN r
  ELSE other_branches(m, last, m.heap[last].parent, pm, path, ls, ub)

next_from_segment(m, last, pm, path, ls, ub) ==
  next_sibling(m, last, pm, path, ls, ub,
               FIND(m, m.heap[last].next, last, pm, ls.seg, ub))

xml_find_next_from(m, last, pm, path, prev, ub) ==
  IF last = 0 THEN 0
  ELSE IF path # 0
  THEN next_from_segment(m, last, pm, path, xml_last_path_segment(pm, path, prev), ub)
  ELSE next_from_segment(m, last, pm, path,
                         [seg |-> [tag_len |-> 0, query |-> <<>>, next |-> 0],
                          prev |-> prev], ub)

xml_find_next(m, last, pm, path, ub) == xml_find_next_from(m, last, pm, path, 0, ub)

(***************************************************************************)
(* Content concatenation.                                                  *)
(***************************************************************************)

RECURSIVE xml_content_len(_, _)
RECURSIVE content_len_from(_, _)

\* The for loop of xml_content_len from child e on.
content_len_from(m, e) ==
  IF e = 0 THEN 0
  ELSE IF m.heap[e].value # <<>>
  THEN strlen(m.heap[e].value, 1) + content_len_from(m, m.heap[e].next)
  ELSE xml_content_len(m, e) + content_len_from(m, m.heap[e].next)

\* A xml_content_len that looks at the direct children only.
xml_content_len_children(m, e) ==
  IF m.heap[e].first_child = 0 \/ m.heap[m.heap[e].first_child].value = <<>> THEN 0
  ELSE strlen(m.heap[m.heap[e].first_child].value, 1)

xml_content_len(m, e) == content_len_from(m, m.heap[e].first_child)

RECURSIVE xml_content_cpy(_, _)
RECURSIVE content_cpy_from(_, _)

\* The bytes the for loop of xml_content_cpy puts at *t from child e on,
\* the terminator of the last strcpy left out.
content_cpy_from(m, e) ==
  IF e = 0 THEN <<>>
  ELSE IF m.heap[e].value # <<>>
  THEN CStr(m.heap[e].value, 1) \o content_cpy_from(m, m.heap[e].next)
  ELSE xml_content_cpy(m, e) \o content_cpy_from(m, m.heap[e].next)

xml_content_cpy(m, e) == content_cpy_from(m, m.heap[e].first_child)

\* The buffer returned (with its terminator), <<>> for NULL.
xml_content(m, e) ==
  IF e = 0 THEN <<>>
  ELSE IF xml_content_len(m, e) < 1 THEN <<>>
  ELSE xml_content_cpy(m, e) \o <<NUL>>

xml_content_find(m, root, pm, path, ub) == xml_content(m, xml_find(m, root, pm, path, ub))

(***************************************************************************)
(* Free memory: the calls of free() with a non-null argument, in order.    *)
(***************************************************************************)

RECURSIVE xml_free(_, _)
RECURSIVE free_children(_, _)
RECURSIVE free_attributes(_, _)

free_children(m, c) ==
  IF c = 0 THEN <<>> ELSE xml_free(m, c) \o free_children(m, m.heap[c].next)

free_attributes(m, a) ==
  IF a = 0 THEN <<>>
  ELSE <<[kind |-> "attribute", id |-> a]>> \o free_attributes(m, m.attrs[a].next)

xml_free(m, e) ==
  IF e = 0 THEN <<>>
  ELSE free_children(m, m.heap[e].first_child)
       \o free_attributes(m, m.heap[e].first_attribute)
       \o (IF m.heap[e].key # <<>> THEN <<[kind |-> "key", id |-> e]>> ELSE <<>>)
       \o (IF m.heap[e].value # <<>> THEN <<[kind |-> "value", id |-> e]>> ELSE <<>>)
       \o <<[kind |-> "element", id |-> e]>>

\* xml_parse(data): the state it built and the pointer it returns.
xml_parse_result(r) == [m |-> r.m, root |-> IF r.ret = 0 THEN r.m.root ELSE 0]

xml_parse(data, junk) == xml_parse_result(xml_parse_chunk(ZeroState, data, junk))

(***************************************************************************)
(* The caller: a sequence of xml_parse_chunk calls on one state, each      *)
(* call unrolled into the invocations of the active mode function.         *)
(***************************************************************************)

MaxCalls == 3

\* What the caller may pass as one chunk.
Chunks ==
  { <<>>,
    <<"<", "a">>, <<">">>, <<"/", ">">>, <<"/", " ", ">">>, <<"<", "/", "a", ">">>,
    <<"x">>, <<"<", ">">>, <<"<", "!", "-">>, <<"-">>, <<"-", ">">>, <<"D">>,
    <<" ", "k", "=", "\"", "v", "\"">>, <<" ", "j">>, <<"=", "\"">>,
    <<"<", "!", "[", "C", "D", "A", "T", "A", "[">>, <<"]", "]", ">">>,
    <<"<", "?", "p", "?", ">">>,
    <<"<", "!", "-", "-">>, <<"]">>, <<"<", "/", "b", ">">>,
    <<"<", "a", " ", "k", "=", "\"", "\"">> }

\* The NULL chunk pointer.
NullChunk == <<NUL>>

\* What may lie behind a key allocation.
Junk == { <<>>, <<"\"", "z">> }

VARIABLES
  m,          \* struct xml_state and the arenas
  d,          \* the rest of the chunk inside xml_parse_chunk's loop
  pc,         \* "idle" between calls, "loop" inside xml_parse_chunk
  ret,        \* what the last finished call returned
  chunks,     \* the arguments of the calls made so far
  text,       \* the bytes of the tag being read or last read, from its `<`
  stalled,    \* the previous invocation in this call consumed no byte
  ev,         \* what the last invocation did: adopted or finalized a tag
  selfClosed, \* elements whose open tag's text ended in `/`
  opened,     \* how many bytes of text tag-opening mode had read at adoption
  qpc,        \* "new", "parsed" once xml_parse returned a tree, "freed"
  doc,        \* the document given to xml_parse
  op,         \* the last call made on the tree
  path,       \* the path of the last xml_find
  found,      \* what the last xml_find / xml_find_next returned
  visited,    \* the elements returned since the last xml_find, in order
  out,        \* the argument and the result of the last xml_content
  am,         \* the arguments and the result of the last xml_attribute_match
  freed       \* the calls of free() made by xml_free

pvars == <<d, pc, ret, chunks, text, stalled, ev, selfClosed, opened>>

qvars == <<qpc, doc, op, path, found, visited, out, am, freed>>

vars == <<m, d, pc, ret, chunks, text, stalled, ev, selfClosed, opened,
          qpc, doc, op, path, found, visited, out, am, freed>>

NoEvent == [kind |-> "none", tag |-> 0, e |-> 0]

NoContent == [e |-> 0, s |-> <<>>]

NoMatch == [e |-> 0, path |-> <<>>, r |-> 0]

Init ==
  /\ qpc = "new"
  /\ doc = <<>>
  /\ op = "none"
  /\ path = <<>>
  /\ found = 0
  /\ visited = <<>>
  /\ out = NoContent
  /\ am = NoMatch
  /\ freed = <<>>
  /\ m = ZeroState
  /\ d = <<>>
  /\ pc = "idle"
  /\ ret = 0
  /\ chunks = <<>>
  /\ text = <<>>
  /\ stalled = FALSE
  /\ ev = NoEvent
  /\ selfClosed = {}
  /\ opened = 0

\* The text between the `<` and the final `>` of a complete tag text.
Inner(t) == SubSeq(t, 2, Len(t) - 1)

RECURSIVE LastNonSpace(_, _)
\* Position of the last byte of s[1..p] that is no white space, 0 if none.
LastNonSpace(s, p) ==
  IF p < 1 THEN 0 ELSE IF s[p] \in WHITESPACE THEN LastNonSpace(s, p - 1) ELSE p

\* The tag text ends in `/`, optionally followed by white space.
EndsInSlash(raw) ==
  LET p == LastNonSpace(raw, Len(raw)) IN p > 0 /\ raw[p] = "/"

\* xml_parse_chunk(st, c) is entered with a non-null chunk.
Call(c) ==
  /\ pc = "idle"
  /\ Len(chunks) < MaxCalls
  /\ m' = parse_chunk_enter(m)
  /\ d' = c
  /\ pc' = "loop"
  /\ chunks' = Append(chunks, c)
  /\ stalled' = FALSE
  /\ ev' = NoEvent
  /\ UNCHANGED <<ret, text, selfClosed, opened>>
  /\ UNCHANGED qvars

\* xml_parse_chunk(st, NULL)
CallNull ==
  /\ pc = "idle"
  /\ Len(chunks) < MaxCalls
  /\ ret' = -1
  /\ chunks' = Append(chunks, NullChunk)
  /\ ev' = NoEvent
  /\ UNCHANGED <<m, d, pc, text, stalled, selfClosed, opened>>
  /\ UNCHANGED qvars

\* What an invocation with result r leaves in the loop's variables.
Invoked(r) ==
  /\ m' = r.m
  /\ IF r.fail
     THEN /\ d' = <<>>
          /\ pc' = "idle"
          /\ ret' = -1
          /\ stalled' = FALSE
     ELSE /\ d' = r.d
          /\ pc' = "loop"
          /\ ret' = ret
          /\ stalled' = (Len(r.d) = Len(d))
  /\ UNCHANGED chunks
  /\ UNCHANGED qvars

\* The bytes an invocation with result r consumed.
Consumed(r) == SubSeq(d, 1, Len(d) - Len(r.d))

StepContent ==
  /\ pc = "loop" /\ d # <<>>
  /\ m.parser = "xml_parse_content"
  /\ Invoked(xml_parse_content(m, d))
  /\ ev' = NoEvent
  /\ UNCHANGED <<text, selfClosed, opened>>

\* The tag-opening invocation gave r.
Opened(r) ==
  /\ Invoked(r)
  /\ text' = IF r.fail THEN text
             ELSE IF m.cursor = 0 /\ m.tag = 0 THEN Consumed(r)
             ELSE text \o Consumed(r)
  /\ ev' = IF ~r.fail /\ r.m.parser = "xml_parse_tag_body"
           THEN [kind |-> "adopt", tag |-> r.m.tag, e |-> r.m.current]
           ELSE NoEvent
  /\ opened' = IF ~r.fail /\ r.m.parser = "xml_parse_tag_body" THEN Len(text')
                ELSE opened
  /\ UNCHANGED selfClosed

StepTagOpening ==
  /\ pc = "loop" /\ d # <<>>
  /\ m.parser = "xml_parse_tag_opening"
  /\ Opened(xml_parse_tag_opening(m, d))

\* The tag-body invocation gave r.
Bodied(r) ==
  /\ Invoked(r)
  /\ text' = IF r.fail THEN text ELSE text \o Consumed(r)
  /\ ev' = IF ~r.fail /\ r.m.parser = "xml_parse_content"
           THEN [kind |-> "close", tag |-> m.tag, e |-> m.current]
           ELSE NoEvent
  /\ selfClosed' = IF /\ ~r.fail /\ r.m.parser = "xml_parse_content"
                      /\ xml_tag_patterns[m.tag].type = TAG_ELEMENT_OPEN
                      /\ EndsInSlash(Inner(text \o Consumed(r)))
                   THEN selfClosed \cup {m.current}
                   ELSE selfClosed
  /\ UNCHANGED opened

StepTagBody ==
  /\ pc = "loop" /\ d # <<>>
  /\ m.parser = "xml_parse_tag_body"
  /\ \E junk \in Junk : Bodied(xml_parse_tag_body(m, d, junk))

\* The loop of xml_parse_chunk has reached the end of the chunk.
Return ==
  /\ pc = "loop" /\ d = <<>>
  /\ pc' = "idle"
  /\ ret' = 0
  /\ UNCHANGED <<m, d, chunks, text, stalled, ev, selfClosed, opened>>
  /\ UNCHANGED qvars

Next ==
  \/ \E c \in Chunks : Call(c)
  \/ CallNull
  \/ StepContent
  \/ StepTagOpening
  \/ StepTagBody
  \/ Return

Spec == Init /\ [][Next]_vars

(***************************************************************************)
(* The caller of the tree functions: xml_parse on a whole document, then   *)
(* xml_find / xml_find_next, xml_content and xml_attribute_match on the    *)
(* tree, and xml_free at the end.                                          *)
(***************************************************************************)

\* The documents the caller parses.
Docs ==
  { <<"<", "a", ">", "<", "b", ">", "1", "<", "/", "b", ">", "<", "b", ">", "2", "<",
      "/", "b", ">", "<", "/", "a", ">">>,
    <<"<", "a", ">", "<", "b", " ", "x", "=", "\"", "1", "\"", ">", "p", "<", "/", "b",
      ">", "<", "b", " ", "x", "=", "\"", "2", "\"", ">", "q", "<", "/", "b", ">", "<",
      "/", "a", ">">>,
    <<"<", "a", ">", "<", "c", ">", "1", "<", "/", "c", ">", "<", "/", "a", ">", "<",
      "A", ">", "<", "b", ">", "2", "<", "/", "b", ">", "<", "/", "A", ">", "<", "a", ">",
      "<", "b", ">", "3", "<", "/", "b", ">", "<", "b", ">", "4", "<", "/", "b", ">", "<",
      "/", "a", ">">>,
    <<"<", "a", "b", ">", "1", "<", "/", "a", "b", ">", "<", "a", ">", "2", "<", "/",
      "a", ">", "<", "a", " ", "k", ">", "3", "<", "/", "a", ">">>,
    <<"<", "a", ">", "x", "<", "!", "-", "-", "c", "-", "-", ">", "<", "b", ">", "y",
      "<", "b", ">", "1", "<", "/", "b", ">", "<", "/", "b", ">", "<", "!", "[", "C", "D",
      "A", "T", "A", "[", "d", "]", "]", ">", "<", "?", "p", "?", ">", "<", "!", "k", ">",
      "2", "<", "/", "a", ">">>,
    <<"<", "a", ">", "&", "a", "m", "p", ";", "<", "/", "a", ">">>,
    <<"<", "a", ">", "<", "b", "/", ">", "<", "/", "a", ">">>,
    <<"<", "a", " ", "k", "=", "\"", ">", "x", "<", "/", "a", ">">> }

\* The paths the caller asks for.
Paths ==
  { <<"a">>,
    <<"A", "/", "B">>,
    <<"a", "/", "b">>,
    <<"a", "/", "b", "?", "x", "=", "1">>,
    <<"a", "/", "b", "?", "x", "=", "3">>,
    <<"a", "/", "b", "?", "x">>,
    <<"a", "?", "k">>,
    <<"a", "?", "k", "=", "1">>,
    <<"a", "/", "c">>,
    <<"a", "/", "b", "/", "b">>,
    <<"b">>,
    <<"a", "/", "b", "?", "x", "=", "2", "&", "x">> }

\* The byte that lies in front of a path string.
Before == { <<"/">>, <<"x">> }

\* The elements of the tree: allocated and not yet freed.
Elements == IF qpc = "parsed" THEN 1..Len(m.heap) ELSE {}

\* root = xml_parse(dc), which succeeds.
Parse(dc) ==
  /\ qpc = "new"
  /\ \E junk \in Junk :
       /\ xml_parse(dc, junk).root # 0
       /\ m' = xml_parse(dc, junk).m
  /\ qpc' = "parsed"
  /\ doc' = dc
  /\ UNCHANGED <<op, path, found, visited, out, am, freed>>
  /\ UNCHANGED pvars

\* xml_find(root, p) returned r.
Found(p, r) ==
  /\ op' = "find"
  /\ path' = p
  /\ found' = r
  /\ visited' = IF r > 0 THEN <<r>> ELSE <<>>
  /\ out' = NoContent
  /\ am' = NoMatch
  /\ UNCHANGED <<m, qpc, doc, freed>>
  /\ UNCHANGED pvars

Find(p) ==
  /\ qpc = "parsed"
  /\ \E ub \in NullRead : Found(p, xml_find(m, m.root, p, 1, ub))

\* xml_find(e, p) on an element e below the root, p being relative to e.
FindIn(e, p) ==
  /\ qpc = "parsed"
  /\ e # m.root
  /\ \E ub \in NullRead :
       /\ found' = xml_find(m, e, p, 1, ub)
       /\ visited' = IF found' > 0 THEN <<found'>> ELSE <<>>
  /\ op' = "find_in"
  /\ path' = p
  /\ out' = NoContent
  /\ am' = NoMatch
  /\ UNCHANGED <<m, qpc, doc, freed>>
  /\ UNCHANGED pvars

\* xml_find_next(found, path) returned r.
FoundNext(r) ==
  /\ op' = IF op \in {"find_in", "find_next_in"} THEN "find_next_in" ELSE "find_next"
  /\ found' = r
  /\ visited' = IF r > 0 THEN Append(visited, r) ELSE visited
  /\ UNCHANGED <<m, qpc, doc, path, out, am, freed>>
  /\ UNCHANGED pvars

FindNext ==
  /\ qpc = "parsed"
  /\ op \in {"find", "find_next", "find_in", "find_next_in"}
  /\ found > 0
  /\ \E ub \in NullRead, before \in Before :
       FoundNext(xml_find_next(m, found, before \o path, Len(before) + 1, ub))

\* xml_content(e), e = 0 being the null pointer.
Content(e) ==
  /\ qpc = "parsed"
  /\ op' = "content"
  /\ out' = [e |-> e, s |-> xml_content(m, e)]
  /\ path' = <<>>
  /\ found' = 0
  /\ visited' = <<>>
  /\ am' = NoMatch
  /\ UNCHANGED <<m, qpc, doc, freed>>
  /\ UNCHANGED pvars

\* xml_attribute_match(e, &seg) returned r, seg being the first segment of p.
Matched(e, p, r) ==
  /\ op' = "attribute_match"
  /\ am' = [e |-> e, path |-> p, r |-> r]
  /\ path' = <<>>
  /\ found' = 0
  /\ visited' = <<>>
  /\ out' = NoContent
  /\ UNCHANGED <<m, qpc, doc, freed>>
  /\ UNCHANGED pvars

AttributeMatch(e, p) ==
  /\ qpc = "parsed"
  /\ \E ub \in NullRead :
       Matched(e, p, xml_attribute_match(m, e, p, xml_first_path_segment(p, 1), ub))

\* xml_free(root)
Free ==
  /\ qpc = "parsed"
  /\ qpc' = "freed"
  /\ op' = "free"
  /\ freed' = xml_free(m, m.root)
  /\ path' = <<>>
  /\ found' = 0
  /\ visited' = <<>>
  /\ out' = NoContent
  /\ am' = NoMatch
  /\ UNCHANGED <<m, doc>>
  /\ UNCHANGED pvars

NextQ ==
  \/ \E dc \in Docs : Parse(dc)
  \/ \E p \in Paths : Find(p)
  \/ \E e \in Elements, p \in Paths : FindIn(e, p)
  \/ FindNext
  \/ \E e \in Elements \cup {0} : Content(e)
  \/ \E e \in Elements, p \in Paths : AttributeMatch(e, p)
  \/ Free

SpecQ == Init /\ [][NextQ]_vars

(***************************************************************************)
(* Properties of the chunk parser.                                         *)
(***************************************************************************)

\* The two chunks of a finished two-call run, parsed as one chunk on a
\* fresh state.
Whole(junk) == xml_parse_chunk(ZeroState, chunks[1] \o chunks[2], junk)

\* C1: feeding a document as two chunks gives the same return code, tree and
\* final parser state as feeding it as one chunk.
C1_ChunkSplitEquivalence ==
  (/\ pc = "idle" /\ Len(chunks) = 2
   /\ chunks[1] # NullChunk /\ chunks[2] # NullChunk)
    => \E junk \in Junk : Whole(junk).ret = ret /\ Whole(junk).m = m

\* C2: every invocation of the active mode function returns with the loop
\* still going, has consumed a byte or switched mode, and does not follow an
\* invocation that consumed nothing with another one that consumes nothing.
C2_Progress ==
  [][(pc = "loop" /\ d # <<>>)
       => /\ pc' = "loop"
          /\ Len(d') < Len(d) \/ m'.parser # m.parser
          /\ ~(stalled /\ Len(d') = Len(d))]_vars

\* C3: a call with a non-null chunk returns success.
C3_NeverRejected ==
  (pc = "idle" /\ chunks # <<>> /\ chunks[Len(chunks)] # NullChunk) => ret = 0

\* open is a prefix of the bytes t.
IsPrefix(open, t) == Len(open) <= Len(t) /\ SubSeq(t, 1, Len(open)) = open

\* The table index of the pattern with the longest opener that is a
\* complete prefix of t.
LongestOpener(t) ==
  CHOOSE p \in 1..(Len(xml_tag_patterns) - 1) :
    /\ IsPrefix(xml_tag_patterns[p].open, t)
    /\ \A q \in 1..(Len(xml_tag_patterns) - 1) :
         IsPrefix(xml_tag_patterns[q].open, t)
           => xml_tag_patterns[q].open_len <= xml_tag_patterns[p].open_len

\* C4: the tag type adopted by tag-opening mode is the one with the longest
\* opener that is a complete prefix of the bytes read since the `<`
\* (the byte that ended the opener included).
C4_OpenerSelection ==
  ev.kind = "adopt" => ev.tag = LongestOpener(text \o <<d[1]>>)

\* C5: a self-closed element has no children and is not the insertion
\* point; when its tag is finalized the `/` is gone from its key buffer and
\* the insertion point is its parent.
C5_SelfClosing ==
  /\ \A e \in selfClosed : m.heap[e].first_child = 0 /\ m.current # e
  /\ (/\ ev.kind = "close" /\ ev.e \in selfClosed
      /\ xml_tag_patterns[ev.tag].type = TAG_ELEMENT_OPEN)
       => /\ m.current = m.heap[ev.e].parent
          /\ m.heap[ev.e].key[LastNonSpace(Inner(text), Len(Inner(text)))] = NUL
          /\ \A i \in 1..Len(m.heap[ev.e].key) : m.heap[ev.e].key[i] = "/" =>
               i < LastNonSpace(Inner(text), Len(Inner(text)))

\* A self-closed element has got a following sibling.
C5_Witness ==
  \E e \in selfClosed :
    /\ CStr(m.heap[e].key, 1) = <<"a">>
    /\ m.heap[e].next # 0 /\ m.heap[e].first_child = 0

\* C11: a call with an empty chunk on a state that has a root leaves the
\* whole state (tree, insertion point, mode, matched tag, cursor, length and
\* empty flag) as it was and returns 0; a call with the null chunk leaves
\* the whole state as it was, a missing root included, and returns -1.
C11_EmptyAndNullChunk ==
  [][/\ (m.root # 0 /\ chunks' = Append(chunks, <<>>))
          => m' = m /\ d' = <<>> /\ pc' = "loop"
     /\ (pc = "loop" /\ chunks[Len(chunks)] = <<>>)
          => m' = m /\ ret' = 0 /\ pc' = "idle"
     /\ chunks' = Append(chunks, NullChunk)
          => m' = m /\ ret' = -1 /\ pc' = "idle"]_vars

\* A null chunk and then an empty chunk arrived in the middle of the opener
\* `<!-` and left it where it was.
C11_Witness ==
  /\ pc = "idle" /\ ret = 0
  /\ chunks = << <<"<", "!", "-">>, NullChunk, <<>> >>
  /\ m.parser = "xml_parse_tag_opening" /\ m.cursor = 3 /\ m.tag # 0

\* The bytes of the tag read in tag-body mode so far.
Body == SubSeq(text, opened + 1, Len(text))

\* An occurrence of the closer of pattern p ends at s[i].
ClosesAt(s, p, i) ==
  /\ i >= Len(xml_tag_patterns[p].close)
  /\ SubSeq(s, i - Len(xml_tag_patterns[p].close) + 1, i) = xml_tag_patterns[p].close

\* C12: a tag is finalized exactly at the end of the first occurrence of
\* its closing delimiter in the body bytes: while tag-body mode is active
\* the body read so far holds no occurrence of the closer, and when the tag
\* is finalized the body ends with the closer and holds no earlier one.
C12_CloserRecognition ==
  /\ (m.parser = "xml_parse_tag_body" /\ ret = 0)
       => \A i \in 1..Len(Body) : ~ClosesAt(Body, m.tag, i)
  /\ ev.kind = "close"
       => /\ ClosesAt(Body, ev.tag, Len(Body))
          /\ \A i \in 1..(Len(Body) - 1) : ~ClosesAt(Body, ev.tag, i)

\* C13: when a processing instruction, declaration, comment or CDATA tag
\* is finalized, the key of its node is the input between the tag's `<` and
\* its final `>`, byte for byte.
C13_RawKeyFidelity ==
  (/\ ev.kind = "close"
   /\ xml_tag_patterns[ev.tag].type \in {TAG_PI, TAG_TYPE, TAG_COMMENT, TAG_CDATA})
    => CStr(m.heap[ev.e].key, 1) = Inner(text)

\* The position of the first quote q in s from s[i] on that no backslash
\* escapes, 0 if there is none.
RECURSIVE QuoteEnd(_, _, _)
QuoteEnd(s, i, q) ==
  IF i > Len(s) THEN 0
  ELSE IF s[i] = "\\" THEN QuoteEnd(s, i + 2, q)
  ELSE IF s[i] = q THEN i
  ELSE QuoteEnd(s, i + 1, q)

\* The text of an element-open tag is not one the attribute rules cover: a
\* `=` without a name or without a value, or a quote that is never closed.
Malformed == [key |-> <<>>, has |-> FALSE, value |-> <<>>, bad |-> TRUE]

\* The attributes written in the tag text s from s[i] on, in document order.
RECURSIVE Written(_, _)
Written(s, i) ==
  LET k  == i + strspn(s, i, WHITESPACE)
      n  == strcspn(s, k, {"="} \cup WHITESPACE)
      e  == (k + n) + strspn(s, k + n, WHITESPACE)
      v  == (e + 1) + strspn(s, e + 1, WHITESPACE)
      u  == strcspn(s, v, WHITESPACE)
      qe == QuoteEnd(s, v + 1, Rd(s, v))
      nm == SubSeq(s, k, k + n - 1)
  IN  IF Rd(s, k) = NUL THEN <<>>
      ELSE IF n = 0 THEN <<Malformed>>
      ELSE IF Rd(s, e) # "="
      THEN <<[key |-> nm, has |-> FALSE, value |-> <<>>, bad |-> FALSE]>> \o Written(s, e)
      ELSE IF Rd(s, v) = NUL THEN <<Malformed>>
      ELSE IF Rd(s, v) \in {"'", "\""}
      THEN IF qe = 0 THEN <<Malformed>>
           ELSE <<[key |-> nm, has |-> TRUE, value |-> SubSeq(s, v + 1, qe - 1),
                   bad |-> FALSE]>> \o Written(s, qe + 1)
      ELSE <<[key |-> nm, has |-> TRUE, value |-> SubSeq(s, v, v + u - 1),
              bad |-> FALSE]>> \o Written(s, v + u)

\* The attribute list from attribute a on, as the parser left it.
RECURSIVE AttributeList(_, _)
AttributeList(tr, a) ==
  IF a = 0 THEN <<>>
  ELSE <<[key |-> CStr(Mem(tr, tr.attrs[a].e), tr.attrs[a].key),
          has |-> tr.attrs[a].value # 0,
          value |-> IF tr.attrs[a].value = 0 THEN <<>>
                    ELSE CStr(Mem(tr, tr.attrs[a].e), tr.attrs[a].value),
          bad |-> FALSE]>> \o AttributeList(tr, tr.attrs[a].next)

\* The text of the tag just finalized without its `<`, its `>` and the
\* `/` of a self-closing tag.
TagText ==
  IF EndsInSlash(Inner(text))
  THEN SubSeq(text, 2, LastNonSpace(Inner(text), Len(Inner(text))))
  ELSE Inner(text)

\* C14: when an element-open tag is finalized, the element's attribute list
\* holds, in document order, one attribute per name written behind the tag
\* name: with the text between the quotes for a quoted value, the text up to
\* the next white space for an unquoted one, and no value for a bare name.
C14_AttributeParsing ==
  (/\ ev.kind = "close" /\ xml_tag_patterns[ev.tag].type = TAG_ELEMENT_OPEN
   /\ \A i \in 1..Len(Written(TagText, 1 + strcspn(TagText, 1, WHITESPACE))) :
        ~Written(TagText, 1 + strcspn(TagText, 1, WHITESPACE))[i].bad)
    => AttributeList(m, m.heap[ev.e].first_attribute)
         = Written(TagText, 1 + strcspn(TagText, 1, WHITESPACE))

\* C15 (as amended): once a chunk was given, exactly one of the three modes
\* is active, and before that none is; in
\* content mode no tag is matched, the cursor is zero and the empty flag is
\* clear; in tag-body mode a tag is matched and the cursor is less than the
\* length of its closer; and every change of mode leaves the cursor at zero.
C15_ModeCursor ==
  /\ [](/\ m.root # 0 => m.parser \in {"xml_parse_content", "xml_parse_tag_opening",
                                        "xml_parse_tag_body"}
        /\ m.root = 0 => m.parser = "NULL"
        /\ m.parser = "xml_parse_content" => m.tag = 0 /\ m.cursor = 0 /\ m.empty = 0
        /\ m.parser = "xml_parse_tag_body"
             => /\ m.tag # 0 /\ xml_tag_patterns[m.tag].type # 0
                /\ m.cursor < Len(xml_tag_patterns[m.tag].close))
  /\ [][m'.parser # m.parser => m'.cursor = 0]_vars

\* C15: one of the three modes is active at any time; in content mode no
\* tag is matched, the cursor is zero and the empty flag is clear; in
\* tag-body mode a tag is matched and the cursor is less than the length of
\* its closer; and every change of mode leaves the cursor at zero.
C15_ExactlyOneMode ==
  /\ [](/\ m.parser \in {"xml_parse_content", "xml_parse_tag_opening",
                          "xml_parse_tag_body"}
        /\ m.parser = "xml_parse_content" => m.tag = 0 /\ m.cursor = 0 /\ m.empty = 0
        /\ m.parser = "xml_parse_tag_body"
             => /\ m.tag # 0 /\ xml_tag_patterns[m.tag].type # 0
                /\ m.cursor < Len(xml_tag_patterns[m.tag].close))
  /\ [][m'.parser # m.parser => m'.cursor = 0]_vars

\* Two bytes of a comment's closer are matched when the chunk ends.
C15_Witness ==
  /\ pc = "idle" /\ ret = 0
  /\ m.parser = "xml_parse_tag_body" /\ m.cursor = 2
  /\ xml_tag_patterns[m.tag].type = TAG_COMMENT

\* C16: tag-opening mode without a matched tag is only ever entered inside
\* a call, with the cursor at zero and a `<` as the next byte, and no
\* invocation of tag-opening mode fails.
C16_NoMalformedTagContext ==
  /\ []((m.parser = "xml_parse_tag_opening" /\ m.tag = 0)
          => pc = "loop" /\ m.cursor = 0 /\ Rd(d, 1) = "<")
  /\ [][(pc = "loop" /\ d # <<>> /\ m.parser = "xml_parse_tag_opening")
          => pc' = "loop" /\ ret' = ret /\ m'.tag # 0]_vars

\* Tag-opening mode was entered behind text with no tag matched, read the
\* `<` and adopted the element-open tag at the byte behind it.
C16_Witness ==
  /\ ev.kind = "adopt" /\ text = <<"<">> /\ d = <<"a">>
  /\ chunks = << <<"x">>, <<"<", "a">> >>
  /\ xml_tag_patterns[m.tag].type = TAG_ELEMENT_OPEN

\* C19: adopting an element-close tag creates no element, reading its body
\* changes no element and no attribute, and finalizing it moves the
\* insertion point to the parent of the element that is the insertion point
\* then, whatever name the tag carries.
C19_CloseNotNameChecked ==
  /\ [][(/\ m.parser = "xml_parse_tag_opening" /\ m'.parser = "xml_parse_tag_body"
         /\ xml_tag_patterns[m'.tag].type = TAG_ELEMENT_CLOSE)
          => Len(m'.heap) = Len(m.heap)]_vars
  /\ [][(/\ pc = "loop" /\ d # <<>> /\ m.parser = "xml_parse_tag_body"
         /\ xml_tag_patterns[m.tag].type = TAG_ELEMENT_CLOSE)
          => /\ m'.heap = m.heap /\ m'.attrs = m.attrs
             /\ m'.current = IF m'.parser = "xml_parse_content"
                             THEN m.heap[m.current].parent ELSE m.current]_vars

\* The close tag `</b>` has closed an element named a.
C19_Witness ==
  /\ ev.kind = "close" /\ text = <<"<", "/", "b", ">">>
  /\ CStr(m.heap[ev.e].key, 1) = <<"a">>
  /\ m.current = m.heap[ev.e].parent /\ m.current = m.root
  /\ Len(m.heap) = 2

(***************************************************************************)
(* Properties of the tree functions.                                       *)
(***************************************************************************)

\* s up to its first byte c, and s behind it.
UpTo(s, c) == IF strchr(s, 1, c) = 0 THEN s ELSE SubSeq(s, 1, strchr(s, 1, c) - 1)

Behind(s, c) == SubSeq(s, strchr(s, 1, c) + 1, Len(s))

\* The pieces of s between the occurrences of the byte c.
RECURSIVE Split(_, _)
Split(s, c) ==
  IF strchr(s, 1, c) = 0 THEN <<s>> ELSE <<UpTo(s, c)>> \o Split(Behind(s, c), c)

\* The constraints written in the path segment sg.
Constraints(sg) == IF strchr(sg, 1, "?") = 0 THEN <<>> ELSE Split(Behind(sg, "?"), "&")

\* The key and the value of attribute a as C strings.
AttrKey(tr, a) == CStr(Mem(tr, tr.attrs[a].e), tr.attrs[a].key)

AttrValue(tr, a) == CStr(Mem(tr, tr.attrs[a].e), tr.attrs[a].value)

\* Element e has an attribute with the constraint's key and, if the
\* constraint carries a value, with exactly that value.
SatisfiesConstraint(tr, e, c) ==
  \E a \in 1..Len(tr.attrs) :
    /\ tr.attrs[a].e = e
    /\ AttrKey(tr, a) = UpTo(c, "=")
    /\ strchr(c, 1, "=") # 0
         => tr.attrs[a].value # 0 /\ AttrValue(tr, a) = Behind(c, "=")

Satisfies(tr, e, sg) ==
  \A i \in 1..Len(Constraints(sg)) : SatisfiesConstraint(tr, e, Constraints(sg)[i])

NameMatches(tr, e, sg) ==
  /\ tr.heap[e].key # <<>>
  /\ LowerStr(CStr(tr.heap[e].key, 1)) = LowerStr(UpTo(sg, "?"))

\* e and its ancestors below the root, the topmost first.
RECURSIVE Chain(_, _)
Chain(tr, e) ==
  IF e = 0 \/ e = tr.root THEN <<>> ELSE Append(Chain(tr, tr.heap[e].parent), e)

MatchesPath(tr, e, segs) ==
  /\ Len(Chain(tr, e)) = Len(segs)
  /\ \A i \in 1..Len(segs) :
       NameMatches(tr, Chain(tr, e)[i], segs[i]) /\ Satisfies(tr, Chain(tr, e)[i], segs[i])

\* The subtree of e in document order.
RECURSIVE Preorder(_, _)
RECURSIVE PreorderFrom(_, _)
Preorder(tr, e) == <<e>> \o PreorderFrom(tr, tr.heap[e].first_child)

PreorderFrom(tr, c) ==
  IF c = 0 THEN <<>> ELSE Preorder(tr, c) \o PreorderFrom(tr, tr.heap[c].next)

\* The elements of the tree that match the whole path p, in document order.
AllMatches(tr, p) ==
  SelectSeq(Preorder(tr, tr.root), LAMBDA e : MatchesPath(tr, e, Split(p, "/")))

\* C6: xml_find returns the first element in document order that matches
\* the whole path, and no match iff no element matches it.
C6_FindFirst ==
  (qpc = "parsed" /\ op = "find")
    => found = IF AllMatches(m, path) = <<>> THEN 0 ELSE AllMatches(m, path)[1]

\* C7: xml_find followed by xml_find_next calls with the same path returns
\* the elements matching the path, each once, in document order, and then
\* no match.
C7_FindNextIteration ==
  (qpc = "parsed" /\ op \in {"find", "find_next"})
    => /\ found >= 0
       /\ Len(visited) <= Len(AllMatches(m, path))
       /\ visited = SubSeq(AllMatches(m, path), 1, Len(visited))
       /\ found = 0 => visited = AllMatches(m, path)
       /\ found > 0 => found = visited[Len(visited)]

\* C8: xml_attribute_match says an element satisfies a segment iff every
\* constraint finds an attribute with its key and, if it carries a value,
\* with that value; a valued constraint and a bare attribute do not match.
C8_AttributeConstraints ==
  (qpc = "parsed" /\ op = "attribute_match")
    => am.r = IF Satisfies(m, am.e, UpTo(am.path, "/")) THEN 1 ELSE 0

\* The values of the text nodes among the elements es, concatenated.
RECURSIVE Text(_, _)
Text(tr, es) ==
  IF es = <<>> THEN <<>>
  ELSE IF tr.heap[Head(es)].value # <<>>
  THEN CStr(tr.heap[Head(es)].value, 1) \o Text(tr, Tail(es))
  ELSE Text(tr, Tail(es))

\* The string t or, if it is empty, no result.
Result(t) == IF t = <<>> THEN <<>> ELSE t \o <<NUL>>

\* The document is <a>...</a> with nothing but text in between.
PlainBody ==
  /\ Len(doc) > 7
  /\ SubSeq(doc, 1, 3) = <<"<", "a", ">">>
  /\ SubSeq(doc, Len(doc) - 3, Len(doc)) = <<"<", "/", "a", ">">>
  /\ \A i \in 4..(Len(doc) - 4) : doc[i] # "<"

RECURSIVE ReadsInFront(_, _, _, _, _, _)
ReadsInFront(tr, last, pm, p, prev, ub) ==
  /\ last # 0
  /\ \/ xml_last_path_segment(pm, p, prev).prev < p
     \/ /\ FIND(tr, tr.heap[last].next, last, pm,
                 xml_last_path_segment(pm, p, prev).seg, ub) = 0
        /\ tr.heap[last].parent # 0
        /\ tr.heap[tr.heap[last].parent].key # <<>>
        /\ ReadsInFront(tr, tr.heap[last].parent, pm, p,
                        xml_last_path_segment(pm, p, prev).prev, ub)

\* C22: a xml_find_next on an element that xml_find or xml_find_next gave,
\* with the path that was given to xml_find, reads no byte in front of the
\* path while it walks up the ancestors.
C22_FindNextStaysInside ==
  (/\ qpc = "parsed" /\ found > 0
   /\ op \in {"find", "find_next", "find_in", "find_next_in"})
    => \A ub \in NullRead, before \in Before :
         ~ReadsInFront(m, found, before \o path, Len(before) + 1, 0, ub)

\* How often x occurs in the sequence s.
Count(s, x) == Cardinality({i \in 1..Len(s) : s[i] = x})

\* The elements reachable from the root.
Reachable == {Preorder(m, m.root)[i] : i \in 1..Len(Preorder(m, m.root))}

\* The child list that starts at element c, following the next links.
RECURSIVE ChildList(_, _)
ChildList(tr, c) == IF c = 0 THEN <<>> ELSE <<c>> \o ChildList(tr, tr.heap[c].next)

\* C17: every element reachable from the root, the root aside, occurs once
\* in the child list of the element its parent link names and in no other
\* child list; every child list of a reachable element is in creation order
\* and ends at last_child; and the parent links lead from every reachable
\* element to the root.
C17_TreeShape ==
  m.root # 0 =>
    /\ m.heap[m.root].parent = 0
    /\ \A e \in Reachable \ {m.root} :
         /\ m.heap[e].parent \in Reachable
         /\ \A p \in 1..Len(m.heap) :
              Count(ChildList(m, m.heap[p].first_child), e)
                = IF p = m.heap[e].parent THEN 1 ELSE 0
         /\ Chain(m, e) # <<>> /\ m.heap[Chain(m, e)[1]].parent = m.root
    /\ \A p \in Reachable :
         /\ \A i \in 2..Len(ChildList(m, m.heap[p].first_child)) :
              ChildList(m, m.heap[p].first_child)[i - 1]
                < ChildList(m, m.heap[p].first_child)[i]
         /\ m.heap[p].first_child = 0 => m.heap[p].last_child = 0
         /\ m.heap[p].first_child # 0
              => m.heap[p].last_child
                   = ChildList(m, m.heap[p].first_child)
                       [Len(ChildList(m, m.heap[p].first_child))]

\* The root has got a processing instruction, a text node and another
\* processing instruction as its children.
C17_Witness ==
  /\ pc = "idle" /\ m.root # 0
  /\ Len(ChildList(m, m.heap[m.root].first_child)) = 3
  /\ m.heap[ChildList(m, m.heap[m.root].first_child)[2]].value # <<>>
  /\ m.heap[ChildList(m, m.heap[m.root].first_child)[3]].key # <<>>

\* C18: an element with a value has no key, no attributes and no children;
\* no two text nodes are neighbours in a child list; and while content mode
\* is accumulating, the insertion point is the text node that holds all
\* the text read since the last tag.
C18_TextNodesAreLeaves ==
  /\ \A e \in 1..Len(m.heap) :
       m.heap[e].value # <<>>
         => /\ m.heap[e].key = <<>>
            /\ m.heap[e].first_attribute = 0 /\ m.heap[e].last_attribute = 0
            /\ m.heap[e].first_child = 0 /\ m.heap[e].last_child = 0
            /\ m.heap[e].next # 0 => m.heap[m.heap[e].next].value = <<>>
  /\ (m.parser = "xml_parse_content" /\ m.length > 0)
       => /\ m.current # 0
          /\ Len(m.heap[m.current].value) = m.length + 1
          /\ strlen(m.heap[m.current].value, 1) = m.length

\* Text that came in two chunks is one text node, and the processing
\* instruction behind it is its sibling.
C18_Witness ==
  \E e \in 1..Len(m.heap) :
    /\ m.heap[e].value = <<"x", "D", NUL>>
    /\ m.heap[e].next # 0
    /\ m.heap[m.heap[e].next].key = <<"?", "p", "?", NUL>>
    /\ m.heap[m.heap[e].next].parent = m.heap[e].parent

\* C20: once the root exists, the insertion point is an element reachable
\* from the root, and so is every element the parser has created.
C20_InsertionPointInTree ==
  m.root # 0
    => /\ m.current \in Reachable
       /\ \A e \in 1..Len(m.heap) : e \in Reachable

\* C21: attribute parsing stays inside the key buffer of the element: the
\* tree xml_parse returns is the one it returns when a zero lies behind each
\* key allocation, whatever lies there; no byte behind a key buffer is part
\* of the tree; and every attribute's key and value begin inside the key
\* buffer of its element.
C21_ScanStaysInside ==
  qpc = "parsed"
    => /\ m = xml_parse(doc, <<>>).m
       /\ \A e \in 1..Len(m.heap) : m.heap[e].over = <<>>
       /\ \A a \in 1..Len(m.attrs) :
            /\ m.attrs[a].key \in 1..Len(m.heap[m.attrs[a].e].key)
            /\ m.attrs[a].value \in 0..Len(m.heap[m.attrs[a].e].key)

\* C10: xml_free(root) releases every reachable element, its attribute
\* nodes and its key and value buffers exactly once and nothing else, and
\* every attribute's key and value lie inside the owning element's key buffer.
C10_FreeOnce ==
  qpc = "freed"
    => /\ \A e \in Reachable :
            /\ Count(freed, [kind |-> "element", id |-> e]) = 1
            /\ Count(freed, [kind |-> "key", id |-> e])
                 = IF m.heap[e].key # <<>> THEN 1 ELSE 0
            /\ Count(freed, [kind |-> "value", id |-> e])
                 = IF m.heap[e].value # <<>> THEN 1 ELSE 0
       /\ \A a \in 1..Len(m.attrs) :
            /\ m.attrs[a].e \in Reachable
                 => Count(freed, [kind |-> "attribute", id |-> a]) = 1
            /\ m.attrs[a].key \in 1..Len(m.heap[m.attrs[a].e].key)
            /\ m.attrs[a].value \in 0..Len(m.heap[m.attrs[a].e].key)
       /\ \A i \in 1..Len(freed) :
            /\ freed[i].kind \in {"element", "key", "value", "attribute"}
            /\ freed[i].kind = "attribute" => m.attrs[freed[i].id].e \in Reachable
            /\ freed[i].kind # "attribute" => freed[i].id \in Reachable

====
